---- MODULE Spec2Model ----
(***************************************************************************)
(* A model of the CHIP-8 virtual machine of src/src/main.rs, types.rs and  *)
(* helpers.rs: the program loader (Chip8::from_game), the interpreter      *)
(* (Chip8::step with math, io and draw_sprite) and the 60Hz timer callback *)
(* (timer_callback), which shares the two AtomicU8 counters dt and st with *)
(* the interpreter.                                                        *)
(*                                                                         *)
(* A panic (todo!(), unreachable!(), an index out of bounds, an arithmetic *)
(* overflow in a build with overflow checks) ends the process: status      *)
(* becomes "panicked" and no action is enabled afterwards.                 *)
(***************************************************************************)
EXTENDS Integers, Sequences, FiniteSets, TLC

(***************************************************************************)
(* Program constants.                                                      *)
(***************************************************************************)
MEM_SIZE == 4096
ENTRY == 512
MAX_GAME == 2048
STACK_SIZE == 100
SURW == 64
SURH == 32
FONT_BASE == 80
NREGS == 16
VF == 15

White == "White"
Black == "Black"

FONT ==
  << 240, 144, 144, 144, 240,
      32,  96,  32,  32, 112,
     240,  16, 240, 128, 240,
     240,  16, 240,  16, 240,
     144, 144, 240,  16,  16,
     240, 128, 240,  16, 240,
     240, 128, 240, 144, 240,
     240,  16,  32,  64,  64,
     240, 144, 240, 144, 240,
     240, 144, 240,  16, 240,
     240, 144, 240, 144, 144,
     224, 144, 224, 144, 224,
     240, 128, 128, 128, 240,
     224, 144, 144, 144, 224,
     240, 128, 240, 128, 240,
     240, 128, 240, 128, 128 >>

(***************************************************************************)
(* Fixed-width arithmetic and bit operations on u8 / u16 values.           *)
(***************************************************************************)
Bit(a, k) == (a \div (2 ^ k)) % 2

BitAnd(a, b) ==
  LET f[k \in 0..16] ==
        IF k = 16 THEN 0 ELSE Bit(a, k) * Bit(b, k) * (2 ^ k) + f[k + 1]
  IN  f[0]

BitOr(a, b) ==
  LET f[k \in 0..16] ==
        IF k = 16 THEN 0
        ELSE (IF Bit(a, k) + Bit(b, k) > 0 THEN 2 ^ k ELSE 0) + f[k + 1]
  IN  f[0]

BitXor(a, b) ==
  LET f[k \in 0..16] ==
        IF k = 16 THEN 0
        ELSE ((Bit(a, k) + Bit(b, k)) % 2) * (2 ^ k) + f[k + 1]
  IN  f[0]

wrapping_add(a, b) == (a + b) % 256

wrapping_sub(a, b) == (a - b + 256) % 256

(***************************************************************************)
(* Instruction: the pure accessors of a 16-bit word.  A shift right by n   *)
(* is the quotient by 2^n, a mask with 2^n - 1 the remainder modulo 2^n,   *)
(* and "as u8" the remainder modulo 256.                                   *)
(***************************************************************************)
get_quater(inst, idx) == (inst \div (2 ^ (16 - (idx + 1) * 4))) % 16

get_addr(inst) == inst % 4096

get_byte_low_nibble(inst) == inst % 16

get_byte(inst) == inst % 256

from_be_bytes(hi, lo) == hi * 256 + lo

(***************************************************************************)
(* Color and its negation.                                                 *)
(***************************************************************************)
Not(c) == IF c = White THEN Black ELSE White

(***************************************************************************)
(* Memory: 4096 bytes with the font table preloaded at 0x50.  The array is *)
(* held as the function from the addresses of its non-zero bytes to those  *)
(* bytes: MemRead gives the byte at any address below MEM_SIZE, MemWrite   *)
(* the array with one byte replaced, MemOf the array with given contents.  *)
(***************************************************************************)
InMemory(a) == a >= 0 /\ a < MEM_SIZE

MemRead(mem, a) == IF a \in DOMAIN mem THEN mem[a] ELSE 0

MemWrite(mem, a, b) ==
  IF b = 0 THEN [x \in (DOMAIN mem) \ {a} |-> mem[x]]
  ELSE [x \in (DOMAIN mem) \cup {a} |-> IF x = a THEN b ELSE mem[x]]

MemOf(bytes) ==
  [a \in {x \in DOMAIN bytes : bytes[x] # 0} |-> bytes[a]]

FontByte(a) ==
  IF a >= FONT_BASE /\ a < FONT_BASE + Len(FONT)
  THEN FONT[a - FONT_BASE + 1] ELSE 0

MemoryDefault == MemOf([a \in 0..(MEM_SIZE - 1) |-> FontByte(a)])

digit_packed(d) == FONT_BASE + d * 4

digit(d) == FONT_BASE + d * 5

(***************************************************************************)
(* State.                                                                  *)
(*   game             the bytes of the game file handed to from_game       *)
(*   status           "start" before from_game, then "running",            *)
(*                    "load_error" (from_game returned Err) or "panicked"  *)
(*   overflow_checks  whether the build panics on integer overflow (debug) *)
(*                    or wraps (release)                                   *)
(*   v, i, pc         CPU registers, address register, program counter     *)
(*   dt, st           the two shared AtomicU8 timers                       *)
(*   stack_memory, sp Stack; the array [u16; 100] is held like Memory, as  *)
(*                    the function from the indices of its non-zero slots  *)
(*   display          Display, as the set of <<x, y>> that are White (a    *)
(*                    pixel not in the set is Black, the default)          *)
(*   memory           Memory                                               *)
(*   tpc, enable      the timer callback's position and its local value    *)
(*                    st.load() > 0 handed to beep                         *)
(*   tone             whether the audio device has been resumed            *)
(*   calls            history: the 2NNN calls that have not returned yet,  *)
(*                    oldest first, each with the address it was fetched   *)
(*                    at and the stack pointer before it                   *)
(*   hist             history: the last step, as the word it fetched, the  *)
(*                    address it was fetched at, the registers, I, sp and  *)
(*                    display before it and the host keys it saw down      *)
(*   hist2            history: the step before the last, likewise          *)
(*   loop             main_loop's position: at "none" when the machine is  *)
(*                    driven step by step from outside the loop, else at   *)
(*                    "check" (the while condition), "batch" (the for loop *)
(*                    with left steps to go, then the flush) or "returned" *)
(*   since            history, per timer: the value n the last FX15 / FX18 *)
(*                    stored (-1: none yet) and the number k of callback   *)
(*                    runs that have finished with that timer since        *)
(***************************************************************************)
VARIABLES game, status, overflow_checks, v, i, pc, dt, st, stack_memory, sp,
          display, memory, tpc, enable, tone, calls, hist, hist2, since, loop

vars == << game, status, overflow_checks, v, i, pc, dt, st, stack_memory, sp,
           display, memory, tpc, enable, tone, calls, hist, hist2, since, loop >>

(***************************************************************************)
(* Display::set_pixel toggles one pixel and reports whether it is Black    *)
(* afterwards.  Indexing outside [[Color; 32]; 64] panics.                 *)
(***************************************************************************)
Pixel(d, x, y) == IF <<x, y>> \in d THEN White ELSE Black

InGrid(x, y) == x < SURW /\ y < SURH

set_pixel_reports_set(d, x, y) ==
  LET c  == Not(Pixel(d, x, y))
      d1 == IF c = White THEN d \cup {<<x, y>>} ELSE d \ {<<x, y>>}
  IN  [display |-> d1, unset |-> Pixel(d1, x, y) = White]

set_pixel_sets(d, x, y) ==
  LET d1 == d \cup {<<x, y>>}
  IN  [display |-> d1, unset |-> Pixel(d1, x, y) = Black]

set_pixel(d, x, y) ==
  LET c  == Not(Pixel(d, x, y))
      d1 == IF c = White THEN d \cup {<<x, y>>} ELSE d \ {<<x, y>>}
  IN  [display |-> d1, unset |-> Pixel(d1, x, y) = Black]

(***************************************************************************)
(* The machine as one record, so that step and its helpers are functions   *)
(* from machine to machine.  ok = FALSE: the call panicked; the other      *)
(* fields then hold what had been written before the panic.                *)
(***************************************************************************)
Machine ==
  [v |-> v, i |-> i, pc |-> pc, dt |-> dt, st |-> st,
   stack_memory |-> stack_memory, sp |-> sp, display |-> display,
   memory |-> memory, ok |-> TRUE]

Panic(m) == [m EXCEPT !.ok = FALSE]

(* Chip8::read_inst; defined only when both bytes are inside memory. *)
read_inst(mem, addr) ==
  from_be_bytes(MemRead(mem, addr), MemRead(mem, addr + 1))

(***************************************************************************)
(* Chip8::math, the 8XY_ group.                                            *)
(***************************************************************************)
math_add_carry_at_255(r, x, y) ==
  LET carry == r[x] + r[y] >= 255
      r1    == [r EXCEPT ![x] = wrapping_add(r[x], r[y])]
  IN  [r1 EXCEPT ![VF] = IF carry THEN 1 ELSE 0]

math_sub_borrow_on_equal(r, x, y) ==
  LET borrow == r[x] <= r[y]
      r1     == [r EXCEPT ![x] = wrapping_sub(r[x], r[y])]
  IN  [r1 EXCEPT ![VF] = IF borrow THEN 0 ELSE 1]

math_add(r, x, y) ==
  LET carry == r[x] + r[y] > 255
      r1    == [r EXCEPT ![x] = wrapping_add(r[x], r[y])]
  IN  [r1 EXCEPT ![VF] = IF carry THEN 1 ELSE 0]

math_sub(r, x, y) ==
  LET borrow == r[x] < r[y]
      r1     == [r EXCEPT ![x] = wrapping_sub(r[x], r[y])]
  IN  [r1 EXCEPT ![VF] = IF borrow THEN 0 ELSE 1]

math_shr_keeps_y(r, x, y) ==
  LET r1 == [r EXCEPT ![VF] = r[y] % 2]
  IN  [r1 EXCEPT ![x] = r[y] \div 2]

math_shr(r, x, y) ==
  LET r1 == [r EXCEPT ![VF] = r[y] % 2]
      r2 == [r1 EXCEPT ![y] = r1[y] \div 2]
  IN  [r2 EXCEPT ![x] = r2[y]]

math(m, inst) ==
  LET x  == get_quater(inst, 1)
      y  == get_quater(inst, 2)
      op == get_quater(inst, 3)
  IN  CASE op = 0 -> [m EXCEPT !.v[x] = m.v[y]]
        [] op = 1 -> [m EXCEPT !.v[x] = BitOr(m.v[x], m.v[y])]
        [] op = 2 -> [m EXCEPT !.v[x] = BitAnd(m.v[x], m.v[y])]
        [] op = 3 -> [m EXCEPT !.v[x] = BitXor(m.v[x], m.v[y])]
        [] op = 4 -> [m EXCEPT !.v = math_add(m.v, x, y)]
        [] op = 5 -> [m EXCEPT !.v = math_sub(m.v, x, y)]
        [] op = 6 -> [m EXCEPT !.v = math_shr(m.v, x, y)]
        [] OTHER  -> Panic(m)

(***************************************************************************)
(* Chip8::io, the FX__ group.                                              *)
(***************************************************************************)
RECURSIVE io_load(_, _, _)
io_load(m, x, k) ==
  IF k > x THEN m
  ELSE IF ~InMemory(m.i + k) THEN Panic(m)
  ELSE io_load([m EXCEPT !.v[k] = MemRead(m.memory, m.i + k)], x, k + 1)

io_bcd_reversed(m, x) ==
  IF ~InMemory(m.i + 2) THEN Panic(m)
  ELSE LET m2 == MemWrite(m.memory, m.i + 2, m.v[x] \div 100)
           m1 == MemWrite(m2, m.i + 1, (m.v[x] \div 10) % 10)
       IN  [m EXCEPT !.memory = MemWrite(m1, m.i, m.v[x] % 10)]

io_bcd(m, x) ==
  IF ~InMemory(m.i + 2) THEN Panic(m)
  ELSE LET m2 == MemWrite(m.memory, m.i + 2, m.v[x] % 10)
           m1 == MemWrite(m2, m.i + 1, (m.v[x] \div 10) % 10)
       IN  [m EXCEPT !.memory = MemWrite(m1, m.i, m.v[x] \div 100)]

io(m, inst) ==
  LET half == get_byte(inst)
      x    == get_quater(inst, 1)
  IN  CASE half = 7   -> [m EXCEPT !.v[x] = m.dt]
        [] half = 21  -> [m EXCEPT !.dt = m.v[x]]
        [] half = 24  -> [m EXCEPT !.st = m.v[x]]
        [] half = 41  -> [m EXCEPT !.i = digit(m.v[x])]
        [] half = 51  -> io_bcd(m, x)
        [] half = 101 -> io_load(m, x, 0)
        [] OTHER      -> Panic(m)

(***************************************************************************)
(* u8 arithmetic as the build evaluates it: with overflow checks an        *)
(* overflow panics (ok = FALSE), without them the value wraps.             *)
(***************************************************************************)
u8_add(a, b, checks) ==
  IF a + b > 255 /\ checks THEN [ok |-> FALSE, val |-> 0]
  ELSE [ok |-> TRUE, val |-> (a + b) % 256]

u8_sub(a, b, checks) ==
  IF a < b /\ checks THEN [ok |-> FALSE, val |-> 0]
  ELSE [ok |-> TRUE, val |-> (a - b + 256) % 256]

(***************************************************************************)
(* Chip8::draw_sprite.  draw_from runs the two nested loops from the k-th  *)
(* iteration on, k = 8 * i + j for row i and bit j.                        *)
(***************************************************************************)
RECURSIVE draw_from(_, _, _, _, _, _)
draw_from(m, x, y, n, checks, k) ==
  IF k >= 8 * n THEN m
  ELSE
    LET row == k \div 8
        j   == k % 8
    IN  IF ~InMemory(m.i + row) THEN Panic(m)
        ELSE IF Bit(MemRead(m.memory, m.i + row), j) = 0
             THEN draw_from(m, x, y, n, checks, k + 1)
        ELSE
          LET x7 == u8_add(x, 7, checks)
              px == u8_sub(x7.val, j, checks)
              py == u8_add(y, row, checks)
          IN  IF ~(x7.ok /\ px.ok /\ py.ok) THEN Panic(m)
              ELSE IF ~InGrid(px.val, py.val) THEN Panic(m)
              ELSE
                LET r  == set_pixel(m.display, px.val, py.val)
                    m1 == [m EXCEPT !.display = r.display,
                                    !.v[VF] = IF r.unset THEN 1 ELSE @]
                IN  draw_from(m1, x, y, n, checks, k + 1)

draw_sprite_keeps_flag(m, x, y, n, checks) ==
  draw_from(m, x, y, n, checks, 0)

draw_sprite(m, x, y, n, checks) ==
  draw_from([m EXCEPT !.v[VF] = 0], x, y, n, checks, 0)

(***************************************************************************)
(* Keyboard::is_pressed: the host key of a hex key; kbd is the set of host *)
(* keys that are down.  A value above 0xF reaches unreachable!().          *)
(***************************************************************************)
Scancode(k) ==
  CASE k = 1  -> "Num1" [] k = 2  -> "Num2" [] k = 3  -> "Num3" [] k = 12 -> "Num4"
    [] k = 4  -> "Q"    [] k = 5  -> "W"    [] k = 6  -> "E"    [] k = 13 -> "R"
    [] k = 7  -> "A"    [] k = 8  -> "S"    [] k = 9  -> "D"    [] k = 14 -> "F"
    [] k = 10 -> "Z"    [] k = 0  -> "X"    [] k = 11 -> "C"    [] k = 15 -> "F"

is_pressed(kbd, k) == Scancode(k) \in kbd

(***************************************************************************)
(* Stack: the return (00EE) and call (2NNN) arms of step.                  *)
(***************************************************************************)
step_ret_reads_before_decrement(m, checks) ==
  IF m.sp < 2
  THEN IF checks THEN Panic(m)
       ELSE Panic([m EXCEPT !.sp = (m.sp - 2 + 256) % 256])
  ELSE [m EXCEPT !.sp = m.sp - 2, !.pc = MemRead(m.stack_memory, m.sp)]

step_call_unchecked(m, inst) ==
  [m EXCEPT !.stack_memory = MemWrite(m.stack_memory, m.sp, m.pc),
            !.sp = m.sp + 2,
            !.pc = get_addr(inst)]

step_ret(m, checks) ==
  IF m.sp < 2
  THEN IF checks THEN Panic(m)
       ELSE Panic([m EXCEPT !.sp = (m.sp - 2 + 256) % 256])
  ELSE IF m.sp - 2 >= STACK_SIZE THEN Panic([m EXCEPT !.sp = m.sp - 2])
  ELSE [m EXCEPT !.sp = m.sp - 2, !.pc = MemRead(m.stack_memory, m.sp - 2)]

step_call(m, inst) ==
  IF m.sp >= STACK_SIZE THEN Panic(m)
  ELSE [m EXCEPT !.stack_memory = MemWrite(m.stack_memory, m.sp, m.pc),
                 !.sp = m.sp + 2,
                 !.pc = get_addr(inst)]

skip_if(m, cond) == IF cond THEN [m EXCEPT !.pc = m.pc + 2] ELSE m

(***************************************************************************)
(* Chip8::step: fetch at pc, pc += 2, dispatch on the top nibble.  kbd is  *)
(* the keyboard state and rnd the byte rand::random() returns.             *)
(***************************************************************************)
dispatch(m, inst, checks, kbd, rnd) ==
  LET q0 == get_quater(inst, 0)
      x  == get_quater(inst, 1)
      y  == get_quater(inst, 2)
      nn == get_byte(inst)
  IN  CASE q0 = 0 /\ inst = 224 -> Panic(m)
        [] q0 = 0 /\ inst = 238 -> step_ret(m, checks)
        [] q0 = 0 /\ inst \notin {224, 238} -> Panic(m)
        [] q0 = 1  -> [m EXCEPT !.pc = get_addr(inst)]
        [] q0 = 2  -> step_call(m, inst)
        [] q0 = 3  -> skip_if(m, m.v[x] = nn)
        [] q0 = 4  -> skip_if(m, m.v[x] # nn)
        [] q0 = 5  -> skip_if(m, m.v[x] = m.v[y])
        [] q0 = 6  -> [m EXCEPT !.v[x] = nn]
        [] q0 = 7  -> [m EXCEPT !.v[x] = wrapping_add(m.v[x], nn)]
        [] q0 = 8  -> math(m, inst)
        [] q0 = 9  -> Panic(m)
        [] q0 = 10 -> [m EXCEPT !.i = get_addr(inst)]
        [] q0 = 11 -> Panic(m)
        [] q0 = 12 -> [m EXCEPT !.v[x] = BitAnd(rnd, nn)]
        [] q0 = 13 -> draw_sprite(m, m.v[x], m.v[y], get_quater(inst, 3), checks)
        [] q0 = 14 /\ nn = 158 -> Panic(m)
        [] q0 = 14 /\ nn = 161 ->
             IF m.v[x] > 15 THEN Panic(m)
             ELSE skip_if(m, ~is_pressed(kbd, m.v[x]))
        [] q0 = 14 /\ nn \notin {158, 161} -> Panic(m)
        [] q0 = 15 -> io(m, inst)

step(m, checks, kbd, rnd) ==
  IF ~(InMemory(m.pc) /\ InMemory(m.pc + 1)) THEN Panic(m)
  ELSE dispatch([m EXCEPT !.pc = m.pc + 2], read_inst(m.memory, m.pc),
                checks, kbd, rnd)

(***************************************************************************)
(* Inputs of a step that come from the host.                               *)
(***************************************************************************)
KeyboardStates == { {}, {"X"}, {"F"} }

RandomBytes == { 0, 165, 255 }

(***************************************************************************)
(* Chip8::from_game: Chip8::new(), the length check, the copy to 0x200.    *)
(***************************************************************************)
from_game_rejects_at_limit(g) ==
  IF Len(g) >= MAX_GAME THEN [ok |-> FALSE, memory |-> MemoryDefault]
  ELSE LET written == ENTRY..(ENTRY + Len(g) - 1)
           byte(a) == IF a \in written THEN g[a - ENTRY + 1]
                      ELSE MemRead(MemoryDefault, a)
       IN  [ok |-> TRUE,
            memory |-> [a \in {x \in (DOMAIN MemoryDefault) \cup written :
                                 byte(x) # 0} |-> byte(a)]]

from_game(g) ==
  IF Len(g) > MAX_GAME THEN [ok |-> FALSE, memory |-> MemoryDefault]
  ELSE LET written == ENTRY..(ENTRY + Len(g) - 1)
           byte(a) == IF a \in written THEN g[a - ENTRY + 1]
                      ELSE MemRead(MemoryDefault, a)
       IN  [ok |-> TRUE,
            memory |-> [a \in {x \in (DOMAIN MemoryDefault) \cup written :
                                 byte(x) # 0} |-> byte(a)]]

StackDefault == [k \in {} |-> 0]

NoStep ==
  [inst |-> -1, pc |-> 0, v |-> [r \in 0..(NREGS - 1) |-> 0], i |-> 0,
   sp |-> 0, display |-> {}, kbd |-> {}]

NoWrite == [n |-> -1, k |-> 0]

InitMachine(games) ==
  /\ game \in games
  /\ overflow_checks \in BOOLEAN
  /\ status = "start"
  /\ v = [r \in 0..(NREGS - 1) |-> 0]
  /\ i = 0
  /\ pc = ENTRY
  /\ dt = 0
  /\ st = 0
  /\ stack_memory = StackDefault
  /\ sp = 0
  /\ display = {}
  /\ memory = MemoryDefault
  /\ tpc = "dt_load"
  /\ enable = FALSE
  /\ tone = FALSE
  /\ calls = << >>
  /\ hist = NoStep
  /\ hist2 = NoStep
  /\ since = [dt |-> NoWrite, st |-> NoWrite]

InitWith(games) ==
  /\ InitMachine(games)
  /\ loop = [at |-> "none", left |-> 0]

FromGame ==
  /\ status = "start"
  /\ LET r == from_game(game)
     IN  /\ status' = IF r.ok THEN "running" ELSE "load_error"
         /\ memory' = r.memory
  /\ UNCHANGED << game, overflow_checks, v, i, pc, dt, st, stack_memory, sp,
                  display, tpc, enable, tone, calls, hist, hist2, since, loop >>

(***************************************************************************)
(* One call of Chip8::step by the driving loop.                            *)
(***************************************************************************)
Fetched == IF InMemory(pc) /\ InMemory(pc + 1) THEN read_inst(memory, pc) ELSE -1

calls_after(cs, inst, at, ok) ==
  IF ~ok \/ inst < 0 THEN cs
  ELSE IF get_quater(inst, 0) = 2 THEN Append(cs, [at |-> at, sp |-> sp])
  ELSE IF inst = 238 /\ Len(cs) > 0 THEN SubSeq(cs, 1, Len(cs) - 1)
  ELSE cs

(* The host inputs a step can observe: the keyboard is read by EXA1 only, *)
(* the random source by CXNN only.                                       *)
KeyboardRead ==
  IF Fetched # -1 /\ get_quater(Fetched, 0) = 14 THEN KeyboardStates ELSE { {} }

RandomRead ==
  IF Fetched # -1 /\ get_quater(Fetched, 0) = 12 THEN RandomBytes ELSE { 0 }

stores(m, half) ==
  m.ok /\ Fetched # -1 /\ get_quater(Fetched, 0) = 15 /\ get_byte(Fetched) = half

StepOnce ==
  /\ status = "running"
  /\ \E kbd \in KeyboardRead, rnd \in RandomRead :
       LET m == step(Machine, overflow_checks, kbd, rnd)
       IN  /\ status' = IF m.ok THEN "running" ELSE "panicked"
           /\ v' = m.v
           /\ i' = m.i
           /\ pc' = m.pc
           /\ dt' = m.dt
           /\ st' = m.st
           /\ stack_memory' = m.stack_memory
           /\ sp' = m.sp
           /\ display' = m.display
           /\ memory' = m.memory
           /\ calls' = calls_after(calls, Fetched, pc, m.ok)
           /\ since' = [dt |-> IF stores(m, 21) THEN [n |-> m.dt, k |-> 0]
                                ELSE since.dt,
                         st |-> IF stores(m, 24) THEN [n |-> m.st, k |-> 0]
                                ELSE since.st]
           /\ hist' = [inst |-> Fetched, pc |-> pc, v |-> v, i |-> i,
                       sp |-> sp, display |-> display, kbd |-> kbd]
  /\ hist2' = hist
  /\ UNCHANGED << game, overflow_checks, tpc, enable, tone >>

Step == loop.at = "none" /\ StepOnce /\ UNCHANGED loop

(***************************************************************************)
(* timer_callback, one atomic operation on a shared counter per step:      *)
(*   dt_load    if dt.load() > 0                                           *)
(*   dt_sub         dt.fetch_sub(1)                                        *)
(*   st_load    if st.load() > 0                                           *)
(*   st_sub         st.fetch_sub(1)                                        *)
(*   beep_load  enable = st.load() > 0                                     *)
(*   beep       audio.beep(enable); return true (the timer is re-armed)    *)
(* AudioDevice::playing is set to false by AudioDevice::new and never      *)
(* written again.                                                          *)
(***************************************************************************)
playing == FALSE

MaxTicks == 3

ticked(s) ==
  IF s.n = -1 THEN s ELSE [s EXCEPT !.k = IF @ < MaxTicks THEN @ + 1 ELSE @]

fetch_sub(a) == (a - 1 + 256) % 256

beep(on, en) ==
  CASE en /\ ~playing -> TRUE
    [] ~en /\ playing -> FALSE
    [] OTHER          -> on

TimerCallback ==
  /\ status = "running"
  /\ CASE tpc = "dt_load" ->
            /\ tpc' = IF dt > 0 THEN "dt_sub" ELSE "st_load"
            /\ since' = IF dt > 0 THEN since ELSE [since EXCEPT !.dt = ticked(@)]
            /\ UNCHANGED << dt, st, enable, tone >>
       [] tpc = "dt_sub" ->
            /\ dt' = fetch_sub(dt)
            /\ tpc' = "st_load"
            /\ since' = [since EXCEPT !.dt = ticked(@)]
            /\ UNCHANGED << st, enable, tone >>
       [] tpc = "st_load" ->
            /\ tpc' = IF st > 0 THEN "st_sub" ELSE "beep_load"
            /\ since' = IF st > 0 THEN since ELSE [since EXCEPT !.st = ticked(@)]
            /\ UNCHANGED << dt, st, enable, tone >>
       [] tpc = "st_sub" ->
            /\ st' = fetch_sub(st)
            /\ tpc' = "beep_load"
            /\ since' = [since EXCEPT !.st = ticked(@)]
            /\ UNCHANGED << dt, enable, tone >>
       [] tpc = "beep_load" ->
            /\ enable' = (st > 0)
            /\ tpc' = "beep"
            /\ UNCHANGED << dt, st, tone, since >>
       [] tpc = "beep" ->
            /\ tone' = beep(tone, enable)
            /\ enable' = FALSE
            /\ tpc' = "dt_load"
            /\ UNCHANGED << dt, st, since >>
  /\ UNCHANGED << game, status, overflow_checks, v, i, pc, stack_memory, sp,
                  display, memory, calls, hist, hist2, loop >>

Next == FromGame \/ Step \/ TimerCallback

(***************************************************************************)
(* main_loop.  LoopCheck is the while condition: Events::is_exited drains  *)
(* the pending events and reports whether a Quit was among them; on a Quit *)
(* the loop ends, main_loop returns Ok(()) and main drops the timer.       *)
(* LoopStep is one iteration of the for loop, UpdateScreen the call of     *)
(* Display::update_screen after it, which is todo!(): what follows it in   *)
(* the loop body (present, sleep, the next check) is never reached.        *)
(***************************************************************************)
BATCH == 16

LoopCheck ==
  /\ loop.at = "check"
  /\ status = "running"
  /\ \E quit \in BOOLEAN :
       IF quit
       THEN status' = "exited" /\ loop' = [at |-> "returned", left |-> 0]
       ELSE status' = status /\ loop' = [at |-> "batch", left |-> BATCH]
  /\ UNCHANGED << game, overflow_checks, v, i, pc, dt, st, stack_memory, sp,
                  display, memory, tpc, enable, tone, calls, hist, hist2,
                  since >>

LoopStep ==
  /\ loop.at = "batch"
  /\ loop.left > 0
  /\ StepOnce
  /\ loop' = [loop EXCEPT !.left = @ - 1]

UpdateScreen ==
  /\ loop.at = "batch"
  /\ loop.left = 0
  /\ status = "running"
  /\ status' = "panicked"
  /\ UNCHANGED << game, overflow_checks, v, i, pc, dt, st, stack_memory, sp,
                  display, memory, tpc, enable, tone, calls, hist, hist2,
                  since, loop >>

NextLoop == FromGame \/ LoopCheck \/ LoopStep \/ UpdateScreen \/ TimerCallback

(***************************************************************************)
(* Game files.  A game is a sequence of bytes; Image lays 16-bit words out *)
(* big-endian, as read_inst reads them back.                               *)
(***************************************************************************)
MaxReg == 1
MaxSmall == 1

RegIdx == (0..MaxReg) \cup {VF}

ByteVals == (0..MaxSmall) \cup {127, 128} \cup ((255 - MaxSmall)..255)

Op(a, b, c, d) == a * 4096 + b * 256 + c * 16 + d

OpNN(a, x, nn) == a * 4096 + x * 256 + nn

Image(ws) ==
  [k \in 1..(2 * Len(ws)) |->
     IF k % 2 = 1 THEN ws[(k + 1) \div 2] \div 256 ELSE ws[k \div 2] % 256]

(* 6Xaa 6Ybb 8XYk: two registers loaded, then one ALU instruction. *)
AluGames ==
  { Image(<< OpNN(6, x, a), OpNN(6, y, b), Op(8, x, y, k) >>) :
      x \in RegIdx, y \in RegIdx, a \in ByteVals, b \in ByteVals, k \in {4, 5} }

(* 60aa F015|F018 F115|F118|F107: a timer set to aa, then a timer set to *)
(* V1 = 0 or the delay timer read into V1.                               *)
MaxTimer == 2

TimerGames ==
  { Image(<< OpNN(6, 0, a), OpNN(15, 0, t1), OpNN(15, 1, t2) >>) :
      a \in 0..MaxTimer, t1 \in {21, 24}, t2 \in {21, 24, 7} }

(* Every game of 1..MaxFlowWords words, each a return or a call of one of *)
(* the first three words of the game.                                      *)
MaxFlowWords == 3

FlowWords == { 238, OpNN(2, 2, 0), OpNN(2, 2, 2), OpNN(2, 2, 4) }

RECURSIVE WordSeqs(_, _)
WordSeqs(words, n) ==
  IF n = 0 THEN { << >> }
  ELSE { Append(ws, w) : ws \in WordSeqs(words, n - 1), w \in words }

FlowGames ==
  { Image(ws) : ws \in UNION { WordSeqs(FlowWords, n) : n \in 1..MaxFlowWords } }

(* 6Xaa 6Ybb then one of 3Xnn, 4Xnn, 5XY0, 9XY0. *)
SkipVals == (0..MaxSmall) \cup {255}

SkipGames ==
  { Image(<< OpNN(6, x, a), OpNN(6, y, b), w >>) :
      x \in RegIdx, y \in RegIdx, a \in SkipVals, b \in SkipVals,
      w \in { OpNN(q, 0, nn) : q \in {3, 4}, nn \in SkipVals }
           \cup { Op(q, 0, 1, 0) : q \in {5, 9} }
           \cup { Op(q, 1, 0, 0) : q \in {5, 9} }
           \cup { Op(q, VF, VF, 0) : q \in {5, 9} } }

(* One-word games: every top nibble with every low nibble, for a choice of *)
(* third nibbles that reaches each byte the E and F groups decode.         *)
DecodeGames ==
  { Image(<< Op(q0, x, y, k) >>) :
      q0 \in 0..15, x \in {1}, y \in {0, 1, 2, 3, 5, 6, 9, 10, 14},
      k \in 0..15 }

(* A s0, D225, 6Xaa, 6Ybb, A s1, DXYn, DXYn: a first sprite drawn at     *)
(* (0, 0), then a second one drawn twice at (aa, bb).  The sprites are the *)
(* 5 zero bytes at 0x000, the glyph of 0 at 0x050, the bytes of the game   *)
(* itself at 0x200 and the last two bytes of memory at 0xFFE.              *)
DrawXs == {0, 2, 60, 250}

DrawYs == {0, 3, 30}

DrawRows == {0, 1, 5}

DrawRegs == { <<0, 1>>, <<VF, 1>>, <<1, VF>> }

DrawGames ==
  { Image(<< 40960 + s0, Op(13, 2, 2, 5), OpNN(6, xy[1], a), OpNN(6, xy[2], b),
             40960 + s1, Op(13, xy[1], xy[2], n), Op(13, xy[1], xy[2], n) >>) :
      s0 \in {0, 80}, s1 \in {80, 512, 4094}, a \in DrawXs, b \in DrawYs,
      n \in DrawRows, xy \in DrawRegs }

InitAlu == InitWith(AluGames)

(***************************************************************************)
(* Images for the loader: the shortest ones and the ones around the 0x800  *)
(* limit, filled with a byte pattern that differs from place to place.     *)
(***************************************************************************)
MaxLoadSmall == 2

MaxOver == 2

LoadLens ==
  (0..MaxLoadSmall) \cup ((MAX_GAME - MaxOver)..(MAX_GAME + MaxOver))

LoadSeeds == { 18, 96, 162 }

LoadGames ==
  { [k \in 1..n |-> (seed + (k - 1)) % 256] : n \in LoadLens, seed \in LoadSeeds }

InitLoad == InitWith(LoadGames)

SpecLoad == InitLoad /\ [][Next]_vars

(***************************************************************************)
(* Three-word programs: clear the screen or store 0 in a register, point I *)
(* at address 0 or at a glyph of the font, draw five rows at (V0, V0).     *)
(***************************************************************************)
EndFirstWords == { 224, OpNN(6, 0, 0), OpNN(6, 1, 0) }

EndSprites == { 0, FONT_BASE, FONT_BASE + 5 }

EndGames ==
  { Image(<< w0, 40960 + a, Op(13, 0, 0, 5) >>) :
      w0 \in EndFirstWords, a \in EndSprites }

InitEnd == InitWith(EndGames)

SpecEnd == InitEnd /\ [][Next]_vars

(***************************************************************************)
(* Images that store a hex digit in VX and look its glyph up (6Xdd FX29),  *)
(* alone or followed by filler bytes up to the largest image accepted.     *)
(***************************************************************************)
FontLens == { 4, MAX_GAME }

FontDigits == 0..15

FontRegs == { 0, VF }

FontGames ==
  { [k \in 1..n |-> IF k <= 4
                    THEN Image(<< OpNN(6, x, d), OpNN(15, x, 41) >>)[k]
                    ELSE (k - 1) % 256] :
      n \in FontLens, x \in FontRegs, d \in FontDigits }

InitFont == InitWith(FontGames)

SpecFont == InitFont /\ [][Next]_vars

(* Programs that run for ever on implemented instructions (a jump to    *)
(* itself, or a store and a jump), and one that stops at its first word. *)
LoopGames ==
  { Image(<< OpNN(6, 0, a), OpNN(1, 2, t) >>) : a \in 0..MaxSmall, t \in {0, 2} }
    \cup { Image(<< OpNN(1, 2, 0) >>), Image(<< 224 >>) }

InitLoop ==
  /\ InitMachine(LoopGames)
  /\ loop = [at |-> "check", left |-> 0]

SpecLoop == InitLoop /\ [][NextLoop]_vars

(* 6Xaa 6Ybb 8XY6: two registers set, then the shift. *)
ShrGames ==
  { Image(<< OpNN(6, x, a), OpNN(6, y, b), Op(8, x, y, 6) >>) :
      x \in RegIdx, y \in RegIdx, a \in ByteVals, b \in ByteVals }

InitShr == InitWith(ShrGames)

SpecShr == InitShr /\ [][Next]_vars

(* 6Xvv ANNN FX33: a value, an address (the last ones of memory among    *)
(* them), then the decimal digits of the value stored at the address.    *)
BcdVals == { 0, 7, 99, 100, 128, 255 }

BcdAddrs == { 0, FONT_BASE, ENTRY + 4, MEM_SIZE - 3, MEM_SIZE - 2 }

BcdGames ==
  { Image(<< OpNN(6, x, val), 40960 + a, OpNN(15, x, 51) >>) :
      x \in {0, VF}, val \in BcdVals, a \in BcdAddrs }

InitBcd == InitWith(BcdGames)

SpecBcd == InitBcd /\ [][Next]_vars

(* 6Xkk EXA1: a key value (0xE, 0xF and the first one past 0xF among    *)
(* them), then the skip on that key not being pressed.                   *)
KeyVals == { 0, 14, 15, 16 }

KeyGames ==
  { Image(<< OpNN(6, x, k), OpNN(14, x, 161) >>) : x \in {0, VF}, k \in KeyVals }

InitKey == InitWith(KeyGames)

SpecKey == InitKey /\ [][Next]_vars

InitDraw == InitWith(DrawGames)

SpecDraw == InitDraw /\ [][Next]_vars

InitSkip == InitWith(SkipGames)

InitDecode == InitWith(DecodeGames)

SpecSkip == InitSkip /\ [][Next]_vars

SpecDecode == InitDecode /\ [][Next]_vars

InitFlow == InitWith(FlowGames)

SpecFlow == InitFlow /\ [][Next]_vars

InitTimer == InitWith(TimerGames)

SpecAlu == InitAlu /\ [][Next]_vars

SpecTimer == InitTimer /\ [][Next]_vars

(***************************************************************************)
(* Vocabulary of the properties.  A transition is a call of step when the  *)
(* machine is running and the timer callback stays where it is (every      *)
(* step of the callback moves tpc); it is a step of the callback when tpc  *)
(* changes.                                                                *)
(***************************************************************************)
IsStep == status = "running" /\ tpc' = tpc

IsTick == tpc' # tpc

FetchedIs(q0) == Fetched # -1 /\ get_quater(Fetched, 0) = q0

StepWritesTimer(half) ==
  IsStep /\ FetchedIs(15) /\ get_byte(Fetched) = half

(***************************************************************************)
(* C1.  Timer decrement saturates at zero: no step of the timer callback   *)
(* turns a counter that is 0 into a non-zero value, and a counter grows    *)
(* only in a step that executes FX15 (delay) or FX18 (sound).              *)
(***************************************************************************)
C1_TimersSaturate ==
  [][ /\ (IsTick /\ dt = 0 => dt' = 0)
      /\ (IsTick /\ st = 0 => st' = 0)
      /\ (dt' > dt => StepWritesTimer(21))
      /\ (st' > st => StepWritesTimer(24)) ]_vars

IsMath(k) == IsStep /\ FetchedIs(8) /\ get_quater(Fetched, 3) = k

LastWas(q0) == hist.inst # -1 /\ get_quater(hist.inst, 0) = q0

LastX == get_quater(hist.inst, 1)

LastY == get_quater(hist.inst, 2)

(***************************************************************************)
(* C2 as claimed.  For all X, Y (X = 0xF, Y = 0xF and X = Y included) and  *)
(* a = V[X], b = V[Y] before the step, 8XY4 leaves V[X] = (a + b) mod 256  *)
(* and V[0xF] = 1 if a + b > 255, else 0.                                  *)
(***************************************************************************)
C2_AddAsClaimed ==
  [][ IsMath(4) =>
        LET x == get_quater(Fetched, 1)
            y == get_quater(Fetched, 2)
        IN  /\ v'[x] = (v[x] + v[y]) % 256
            /\ v'[VF] = IF v[x] + v[y] > 255 THEN 1 ELSE 0 ]_vars

(***************************************************************************)
(* C2 as amended.  For all X, Y and a = V[X], b = V[Y] before the step,    *)
(* 8XY4 leaves V[0xF] = 1 if a + b > 255, else 0, and, when X is not 0xF,  *)
(* V[X] = (a + b) mod 256; every register other than V[X] and V[0xF] is    *)
(* unchanged.                                                              *)
(***************************************************************************)
C2_Add ==
  [][ IsMath(4) =>
        LET x == get_quater(Fetched, 1)
            y == get_quater(Fetched, 2)
        IN  /\ status' = "running"
            /\ x # VF => v'[x] = (v[x] + v[y]) % 256
            /\ v'[VF] = IF v[x] + v[y] > 255 THEN 1 ELSE 0
            /\ \A r \in 0..(NREGS - 1) \ {x, VF} : v'[r] = v[r] ]_vars

(* An 8XY4 with X # 0xF and Y = 0xF has executed and carried. *)
C2_AddWitness ==
  /\ status = "running"
  /\ LastWas(8) /\ get_quater(hist.inst, 3) = 4
  /\ LastX # VF /\ LastY = VF
  /\ hist.v[LastX] + hist.v[LastY] > 255
  /\ v[LastX] = (hist.v[LastX] + hist.v[LastY]) % 256
  /\ v[VF] = 1

(***************************************************************************)
(* C3 as claimed.  For all X, Y and a = V[X], b = V[Y] before the step,    *)
(* 8XY5 leaves V[X] = (a - b) mod 256 and V[0xF] = 0 if a < b, else 1.     *)
(***************************************************************************)
C3_SubAsClaimed ==
  [][ IsMath(5) =>
        LET x == get_quater(Fetched, 1)
            y == get_quater(Fetched, 2)
        IN  /\ v'[x] = (v[x] - v[y] + 256) % 256
            /\ v'[VF] = IF v[x] < v[y] THEN 0 ELSE 1 ]_vars

(***************************************************************************)
(* C3 as amended.  For all X, Y and a = V[X], b = V[Y] before the step,    *)
(* 8XY5 leaves V[0xF] = 0 if a < b, else 1, and, when X is not 0xF,        *)
(* V[X] = (a - b) mod 256; every register other than V[X] and V[0xF] is    *)
(* unchanged.                                                              *)
(***************************************************************************)
C3_Sub ==
  [][ IsMath(5) =>
        LET x == get_quater(Fetched, 1)
            y == get_quater(Fetched, 2)
        IN  /\ status' = "running"
            /\ x # VF => v'[x] = (v[x] - v[y] + 256) % 256
            /\ v'[VF] = IF v[x] < v[y] THEN 0 ELSE 1
            /\ \A r \in 0..(NREGS - 1) \ {x, VF} : v'[r] = v[r] ]_vars

(* An 8XY5 with X # 0xF has executed and borrowed. *)
C3_SubWitness ==
  /\ status = "running"
  /\ LastWas(8) /\ get_quater(hist.inst, 3) = 5
  /\ LastX # VF
  /\ hist.v[LastX] < hist.v[LastY]
  /\ v[LastX] = hist.v[LastX] - hist.v[LastY] + 256
  /\ v[VF] = 0

(***************************************************************************)
(* C4.  Call and return are matched LIFO.  A 00EE executed while calls are *)
(* outstanding succeeds and sets pc to the address after the most recent   *)
(* call that has not returned, and sp to its value before that call; in    *)
(* particular a 00EE executed right after a 2NNN fetched at p leaves       *)
(* pc = p + 2 and sp as it was before the call.                            *)
(***************************************************************************)
C4_CallReturn ==
  [][ IsStep /\ Fetched = 238 =>
        /\ Len(calls) > 0 => status' = "running"
        /\ status' = "running" =>
             /\ Len(calls) > 0
             /\ pc' = calls[Len(calls)].at + 2
             /\ sp' = calls[Len(calls)].sp
             /\ LastWas(2) => pc' = hist.pc + 2 /\ sp' = hist.sp ]_vars

(* A 00EE has returned from a call nested inside another call. *)
C4_Witness ==
  /\ status = "running"
  /\ hist.inst = 238
  /\ Len(calls) >= 1
  /\ sp = hist.sp - 2
  /\ pc # calls[Len(calls)].at + 2

(***************************************************************************)
(* C10.  Stack discipline violations are fatal.  A 00EE executed with the  *)
(* stack pointer at the base, and a 2NNN executed with the stack pointer   *)
(* at the end of the array (every usable slot holds a return address),     *)
(* panic in that step: pc keeps the value the fetch gave it, the stack     *)
(* array is not written, no slot outside the array ever exists, and no     *)
(* transition leaves a panicked state.                                     *)
(***************************************************************************)
C10_StackFatal ==
  [][ /\ status # "panicked"
      /\ DOMAIN stack_memory' \subseteq 0..(STACK_SIZE - 1)
      /\ IsStep /\ Fetched = 238 /\ sp = 0 =>
           /\ status' = "panicked"
           /\ pc' = pc + 2
           /\ stack_memory' = stack_memory
      /\ IsStep /\ FetchedIs(2) /\ sp >= STACK_SIZE =>
           /\ status' = "panicked"
           /\ pc' = pc + 2
           /\ sp' = sp
           /\ stack_memory' = stack_memory ]_vars

(* A 2NNN has panicked with 50 calls outstanding and sp at the array's end. *)
C10_Witness ==
  /\ status = "panicked"
  /\ LastWas(2)
  /\ hist.sp = STACK_SIZE
  /\ 2 * Len(calls) = STACK_SIZE
  /\ pc = hist.pc + 2

(* A 00EE has panicked on the empty stack. *)
C10_UnderflowReached ==
  /\ status = "panicked"
  /\ hist.inst = 238
  /\ hist.sp = 0
  /\ pc = hist.pc + 2

IsSkipWord(inst) ==
  \/ get_quater(inst, 0) \in {3, 4}
  \/ get_quater(inst, 0) \in {5, 9} /\ get_quater(inst, 3) = 0

SkipCondition(inst, r) ==
  LET x  == get_quater(inst, 1)
      y  == get_quater(inst, 2)
      nn == get_byte(inst)
  IN  CASE get_quater(inst, 0) = 3 -> r[x] = nn
        [] get_quater(inst, 0) = 4 -> r[x] # nn
        [] get_quater(inst, 0) = 5 -> r[x] = r[y]
        [] get_quater(inst, 0) = 9 -> r[x] # r[y]

(***************************************************************************)
(* C5.  Each of 3XNN, 4XNN, 5XY0 and 9XY0 leaves pc = old pc + 4 when its  *)
(* condition holds (VX = NN, VX # NN, VX = VY, VX # VY) and old pc + 2     *)
(* when it does not, with registers, I, stack, memory and display          *)
(* unchanged.                                                              *)
(***************************************************************************)
C5_Skips ==
  [][ IsStep /\ Fetched # -1 /\ IsSkipWord(Fetched) =>
        /\ status' = "running"
        /\ pc' = pc + (IF SkipCondition(Fetched, v) THEN 4 ELSE 2)
        /\ UNCHANGED << v, i, stack_memory, sp, memory, display >> ]_vars

IsDefinedWord(inst) ==
  LET q0 == get_quater(inst, 0)
      k  == get_quater(inst, 3)
      nn == get_byte(inst)
  IN  \/ inst \in {224, 238}
      \/ q0 \in {1, 2, 3, 4, 6, 7, 10, 11, 12, 13}
      \/ q0 \in {5, 9} /\ k = 0
      \/ q0 = 8 /\ k \in (0..7) \cup {14}
      \/ q0 = 14 /\ nn \in {158, 161}
      \/ q0 = 15 /\ nn \in {7, 10, 21, 24, 30, 41, 51, 85, 101}

(***************************************************************************)
(* C9.  Every fetched word that matches none of the defined opcode         *)
(* patterns panics in that step (nothing but pc, advanced by the fetch, is *)
(* changed), and no transition leaves a panicked state.                    *)
(***************************************************************************)
C9_UndefinedFatal ==
  [][ /\ status # "panicked"
      /\ IsStep /\ Fetched # -1 /\ ~IsDefinedWord(Fetched) =>
           /\ status' = "panicked"
           /\ pc' = pc + 2
           /\ UNCHANGED << v, i, dt, st, stack_memory, sp, memory, display >> ]_vars

(***************************************************************************)
(* The last two steps fetched the same DXYN word, with the same I and the  *)
(* same coordinates V[X], V[Y] before each (no step lies between them, and *)
(* a draw writes no memory, so the sprite bytes are the same).  The first  *)
(* of the two completed, or there would have been no second.               *)
(***************************************************************************)
SameDrawTwice ==
  /\ LastWas(13)
  /\ hist2.inst = hist.inst
  /\ hist2.i = hist.i
  /\ hist2.v[LastX] = hist.v[LastX]
  /\ hist2.v[LastY] = hist.v[LastY]

DrawInRange == hist.v[LastX] < SURW /\ hist.v[LastY] < SURH

(* The pixels the set bits of the sprite of the last DXYN cover. *)
SpritePixels ==
  { << hist.v[LastX] + 7 - rj[2], hist.v[LastY] + rj[1] >> :
      rj \in { q \in (0..(get_quater(hist.inst, 3) - 1)) \X (0..7) :
                 Bit(MemRead(memory, hist.i + q[1]), q[2]) = 1 } }

(***************************************************************************)
(* C6.  Drawing is an involution on pixels: the same DXYN executed twice   *)
(* in a row at an in-range position, with the same I and coordinates,      *)
(* completes and leaves every pixel as it was before the first draw.       *)
(***************************************************************************)
C6_DrawTwiceRestores ==
  SameDrawTwice /\ DrawInRange =>
    status = "running" /\ display = hist2.display

(* The sprite was drawn twice over a non-empty display and changed it. *)
C6_Witness ==
  /\ SameDrawTwice /\ DrawInRange
  /\ status = "running"
  /\ hist2.display # {}
  /\ hist.display # hist2.display
  /\ display = hist2.display

(***************************************************************************)
(* C7 as claimed.  When the same sprite is drawn twice in a row at the     *)
(* same location, V[0xF] after the second DXYN equals V[0xF] after the     *)
(* first.                                                                  *)
(***************************************************************************)
C7_FlagsEqualAsClaimed ==
  SameDrawTwice /\ status = "running" => v[VF] = hist.v[VF]

(***************************************************************************)
(* C7 as amended.  When the same sprite is drawn twice in a row at the     *)
(* same in-range location, V[0xF] after the first DXYN is 1 exactly when a *)
(* pixel under a set sprite bit was set before the first draw, and V[0xF]  *)
(* after the second DXYN is 1 exactly when a pixel under a set sprite bit  *)
(* was unset before the first draw.                                        *)
(***************************************************************************)
C7_Flags ==
  SameDrawTwice /\ DrawInRange =>
    /\ hist.v[VF] = IF \E p \in SpritePixels : p \in hist2.display THEN 1 ELSE 0
    /\ v[VF] = IF \E p \in SpritePixels : p \notin hist2.display THEN 1 ELSE 0

(* A sprite drawn twice over its own image: first flag 1, second flag 0. *)
C7_Witness ==
  /\ SameDrawTwice /\ DrawInRange
  /\ status = "running"
  /\ SpritePixels # {}
  /\ hist.v[VF] = 1
  /\ v[VF] = 0

LoadedAsImage(mem, g) ==
  \A a \in 0..(MEM_SIZE - 1) :
    MemRead(mem, a) = IF a \in ENTRY..(ENTRY + Len(g) - 1)
                      THEN g[a - ENTRY + 1]
                      ELSE MemRead(MemoryDefault, a)

(***************************************************************************)
(* C8.  Chip8::from_game succeeds exactly when the image is at most 0x800  *)
(* bytes long; on success memory[0x200 + k] is byte k of the image, every  *)
(* other byte of memory has its freshly-initialised value and pc is 0x200; *)
(* after a failed load nothing runs: no step and no timer tick.            *)
(***************************************************************************)
C8_Load ==
  [][ /\ status # "load_error"
      /\ status = "start" =>
           /\ status' \in {"running", "load_error"}
           /\ status' = "running" <=> Len(game) <= MAX_GAME
           /\ status' = "running" => pc' = ENTRY /\ LoadedAsImage(memory', game)
    ]_vars

(* An image of exactly 0x800 bytes was loaded, its last byte included. *)
C8_Witness ==
  /\ Len(game) = MAX_GAME
  /\ status = "running"
  /\ hist = NoStep
  /\ game[MAX_GAME] # 0
  /\ LoadedAsImage(memory, game)

(* An image of 0x801 bytes was refused. *)
C8_Refused == Len(game) = MAX_GAME + 1 /\ status = "load_error"

(***************************************************************************)
(* The pixels (VX + c, VY + r) under the set bits (7 - c) of the N sprite  *)
(* bytes at I, for the DXYN word inst, as plain integers (no u8 wrap).     *)
(***************************************************************************)
Touched(inst, regs, at, mem) ==
  { << regs[get_quater(inst, 1)] + rc[2], regs[get_quater(inst, 2)] + rc[1] >> :
      rc \in { q \in (0..(get_quater(inst, 3) - 1)) \X (0..7) :
                 Bit(MemRead(mem, at + q[1]), 7 - q[2]) = 1 } }

DrawFits(inst, regs, at, mem) ==
  /\ at + get_quater(inst, 3) - 1 < MEM_SIZE
  /\ \A p \in Touched(inst, regs, at, mem) : InGrid(p[1], p[2])

(***************************************************************************)
(* C11.  A DXYN whose sprite bytes lie in memory and whose touched         *)
(* coordinates all lie inside the 64x32 grid completes; pixel              *)
(* (VX + c, VY + r) is toggled exactly when bit (7 - c) of memory[I + r]   *)
(* is set and no other pixel changes; V[0xF] becomes 1 if a pixel that was *)
(* set before is unset after, else 0, whatever it was before and also for  *)
(* X or Y = 0xF; the other registers, I and memory are unchanged.          *)
(***************************************************************************)
C11_Draw ==
  [][ IsStep /\ FetchedIs(13) /\ DrawFits(Fetched, v, i, memory) =>
        LET t == Touched(Fetched, v, i, memory)
        IN  /\ status' = "running"
            /\ display' = (display \ t) \cup (t \ display)
            /\ v'[VF] = IF \E p \in display : p \notin display' THEN 1 ELSE 0
            /\ \A r \in 0..(NREGS - 1) \ {VF} : v'[r] = v[r]
            /\ i' = i
            /\ memory' = memory
            /\ pc' = pc + 2 ]_vars

(* A draw with V[0xF] = 1 before it set some pixels and unset others. *)
C11_Witness ==
  /\ status = "running"
  /\ LastWas(13)
  /\ hist.v[VF] = 1
  /\ display \ hist.display # {}
  /\ hist.display \ display # {}
  /\ v[VF] = 1

(* A draw over set pixels that unset none of them left V[0xF] = 0. *)
C11_NoCollision ==
  /\ status = "running"
  /\ LastWas(13)
  /\ hist.display # {}
  /\ display \ hist.display # {}
  /\ hist.display \subseteq display
  /\ v[VF] = 0

Max(a, b) == IF a >= b THEN a ELSE b

Counted(s, t) == s.n # -1 /\ s.k < MaxTicks => t = Max(s.n - s.k, 0)

(***************************************************************************)
(* C12.  Timer countdown (its safety part).  If FX15 / FX18 stored n in a  *)
(* timer and no later instruction wrote that timer, then after k runs of   *)
(* the callback the timer is max(n - k, 0); a run of the callback lowers   *)
(* each counter by at most 1 and never raises it; the callback's work on   *)
(* one counter leaves the other alone, and so do FX15 and FX18.  A run is  *)
(* counted for a timer once the callback has finished with that timer, so  *)
(* a store that falls between the callback's load and its fetch_sub is     *)
(* followed by k = 1, not by k = 0.                                        *)
(***************************************************************************)
C12_Countdown ==
  /\ [](Counted(since.dt, dt) /\ Counted(since.st, st))
  /\ [][ /\ IsTick =>
              /\ dt' \in {dt, dt - 1}
              /\ st' \in {st, st - 1}
              /\ tpc \in {"dt_load", "dt_sub"} => st' = st
              /\ tpc \in {"st_load", "st_sub"} => dt' = dt
         /\ StepWritesTimer(21) => st' = st
         /\ StepWritesTimer(24) => dt' = dt ]_vars

(***************************************************************************)
(* C13.  The tone follows the sound timer: when a run of the callback      *)
(* ends (beep has returned), the audio device is producing the tone if and *)
(* only if the sound timer is greater than 0; so the run in which the      *)
(* timer has reached 0 turns the tone off.                                 *)
(***************************************************************************)
C13_ToneFollows ==
  [][ tpc = "beep" /\ tpc' = "dt_load" => (tone' <=> st' > 0) ]_vars

(* The same, for the runs in which no instruction wrote the sound timer   *)
(* between the callback's last st.load() and its call of beep.            *)
C13_ToneFollowsUnraced ==
  [][ tpc = "beep" /\ tpc' = "dt_load" /\ enable = (st > 0) =>
        (tone' <=> st' > 0) ]_vars

(***************************************************************************)
(* C14.  One step that executes 6XNN fetched at p leaves pc = p + 2 and    *)
(* V[X] = NN, and leaves every other register, I, the stack and the stack  *)
(* pointer, memory, the display and both timers unchanged.                 *)
(***************************************************************************)
C14_StoreFrame ==
  [][ IsStep /\ FetchedIs(6) =>
        LET x  == (Fetched \div 256) % 16
            nn == Fetched % 256
        IN  /\ status' = "running"
            /\ pc' = pc + 2
            /\ v'[x] = nn
            /\ \A r \in 0..(NREGS - 1) \ {x} : v'[r] = v[r]
            /\ UNCHANGED << i, stack_memory, sp, memory, display, dt, st >> ]_vars

(* A 6FNN with NN above 0x0F has changed V[0xF]. *)
C14_Witness ==
  /\ status = "running"
  /\ LastWas(6)
  /\ LastX = VF
  /\ hist.inst % 256 > 15
  /\ hist.v[VF] # hist.inst % 256
  /\ v[VF] = hist.inst % 256
  /\ pc = hist.pc + 2

(* The digit-0 glyph, rows 0xF0 0x90 0x90 0x90 0xF0 with the most      *)
(* significant bit leftmost, at the top-left corner of the display.     *)
GlyphRows == << 240, 144, 144, 144, 240 >>

Glyph0 ==
  { p \in (0..7) \X (0..4) : Bit(GlyphRows[p[2] + 1], 7 - p[1]) = 1 }

EndProgram == Image(<< 224, 40960, Op(13, 0, 0, 5) >>)

(***************************************************************************)
(* C15.  A machine loaded with 00E0, A000, D005 completes its first three  *)
(* steps without a fatal error, and after the third the display shows the  *)
(* digit-0 glyph at the top-left corner, every other pixel unset, and      *)
(* V[0xF] = 0.                                                             *)
(***************************************************************************)
C15_EndToEnd ==
  [][ game = EndProgram /\ IsStep /\ pc \in {ENTRY, ENTRY + 2, ENTRY + 4} =>
        /\ status' = "running"
        /\ pc = ENTRY + 4 => display' = Glyph0 /\ v'[VF] = 0 ]_vars

(* With I at address 0 the sprite bytes are all zero: nothing is drawn. *)
C15_NothingAtZero ==
  game = Image(<< OpNN(6, 0, 0), 40960, Op(13, 0, 0, 5) >>) => display = {}

(* With I at the font's base the same draw shows the digit-0 glyph. *)
C15_GlyphAtFontBase ==
  /\ game = Image(<< OpNN(6, 0, 0), 40960 + FONT_BASE, Op(13, 0, 0, 5) >>)
  /\ status = "running"
  /\ LastWas(13)
  /\ display = Glyph0
  /\ v[VF] = 0

(***************************************************************************)
(* C16.  After any accepted load, FX29 with V[X] = d, d a hex digit, sets  *)
(* I to an address a such that memory[a .. a + 4] are the five glyph bytes *)
(* of d in the font table; a .. a + 4 lies inside the font region, below   *)
(* the load address, and the font region holds the font table.             *)
(***************************************************************************)
C16_FontLookup ==
  [][ IsStep /\ FetchedIs(15) /\ Fetched % 256 = 41
        /\ v[(Fetched \div 256) % 16] \in 0..15 =>
        LET d == v[(Fetched \div 256) % 16]
        IN  /\ status' = "running"
            /\ \A k \in 0..4 : MemRead(memory', i' + k) = FONT[5 * d + k + 1]
            /\ i' >= FONT_BASE
            /\ i' + 4 < FONT_BASE + Len(FONT)
            /\ i' + 4 < ENTRY
            /\ \A b \in 1..Len(FONT) :
                 MemRead(memory', FONT_BASE + b - 1) = FONT[b] ]_vars

(* The glyph of F was looked up after a load of the largest image. *)
C16_Witness ==
  /\ Len(game) = MAX_GAME
  /\ status = "running"
  /\ LastWas(15) /\ hist.inst % 256 = 41
  /\ hist.v[LastX] = 15
  /\ i = FONT_BASE + 75
  /\ << MemRead(memory, i), MemRead(memory, i + 1), MemRead(memory, i + 2),
        MemRead(memory, i + 3), MemRead(memory, i + 4) >>
       = << 240, 128, 240, 128, 128 >>

(***************************************************************************)
(* C17.  FX0A suspends only the instruction stream: the step that fetches  *)
(* it does not terminate the machine (so the callback keeps running: it    *)
(* runs whenever the machine does); either no key is down and the step     *)
(* changes no register and leaves pc at the FX0A, or a key k is down and   *)
(* the step leaves V[X] = k and pc at the next instruction.                *)
(***************************************************************************)
C17_KeyWait ==
  [][ IsStep /\ FetchedIs(15) /\ Fetched % 256 = 10 =>
        LET x == (Fetched \div 256) % 16
        IN  /\ status' = "running"
            /\ \/ pc' = pc /\ v' = v
               \/ /\ pc' = pc + 2
                  /\ v'[x] \in 0..15
                  /\ \A r \in 0..(NREGS - 1) \ {x} : v'[r] = v[r] ]_vars

(***************************************************************************)
(* C18.  Quit stops the machine: once the loop's check has seen a quit     *)
(* event main_loop has returned Ok and nothing runs any more, no step, no  *)
(* flush, no tick.  Without a quit event the check starts a batch of 16    *)
(* steps, each step of the batch is counted, and after the 16th the flush  *)
(* completes and the loop is back at its check.                            *)
(***************************************************************************)
C18_Loop ==
  [][ /\ status # "exited"
      /\ loop.at = "check" /\ ~IsTick /\ status = "running" =>
           \/ status' = "exited" /\ loop'.at = "returned"
           \/ status' = "running" /\ loop' = [at |-> "batch", left |-> 16]
      /\ loop.at = "batch" /\ loop.left > 0 /\ ~IsTick =>
           loop' = [at |-> "batch", left |-> loop.left - 1]
      /\ loop.at = "batch" /\ loop.left = 0 /\ ~IsTick =>
           status' = "running" /\ loop'.at = "check" ]_vars

(* main_loop has returned on a quit event after no step at all. *)
C18_QuitReached ==
  status = "exited" /\ loop.at = "returned" /\ hist = NoStep

C20_Bcd ==
  [][ IsStep /\ FetchedIs(15) /\ Fetched % 256 = 51 /\ i + 2 <= 4095 =>
        LET val == v[(Fetched \div 256) % 16]
            h   == MemRead(memory', i)
            t   == MemRead(memory', i + 1)
            o   == MemRead(memory', i + 2)
        IN  /\ status' = "running"
            /\ h = val \div 100
            /\ t = (val \div 10) % 10
            /\ o = val % 10
            /\ {h, t, o} \subseteq 0..9
            /\ 100 * h + 10 * t + o = val
            /\ i' = i
            /\ v' = v
            /\ \A a \in (0..(MEM_SIZE - 1)) \ {i, i + 1, i + 2} :
                 MemRead(memory', a) = MemRead(memory, a) ]_vars

(* The digits 2, 5, 5 of 255 were stored in the last three bytes of memory. *)
C20_Witness ==
  /\ status = "running"
  /\ LastWas(15) /\ hist.inst % 256 = 51
  /\ hist.v[LastX] = 255
  /\ i = MEM_SIZE - 3
  /\ << MemRead(memory, i), MemRead(memory, i + 1), MemRead(memory, i + 2) >>
       = << 2, 5, 5 >>

(* The slots of the stack array that the calls not yet returned wrote. *)
OccupiedSlots == { calls[k].sp : k \in 1..Len(calls) }

(***************************************************************************)
(* C21.  Stack-pointer invariant.  While the machine runs the stack        *)
(* pointer is within the return-address array (at most one past its last   *)
(* slot); every call that has not returned holds a slot of its own below   *)
(* the stack pointer, with its return address in it, so the calls          *)
(* outstanding are as many as the slots occupied; and a call made with     *)
(* fewer outstanding calls than the array has slots (100) is not an        *)
(* overflow.                                                               *)
(***************************************************************************)
C21_StackInvariant ==
  /\ [](status = "running" =>
          /\ sp \in 0..STACK_SIZE
          /\ OccupiedSlots \subseteq 0..(sp - 1)
          /\ Cardinality(OccupiedSlots) = Len(calls)
          /\ \A k \in 1..Len(calls) :
               MemRead(stack_memory, calls[k].sp) = calls[k].at + 2)
  /\ [][ IsStep /\ FetchedIs(2) /\ Len(calls) < 100 => status' = "running" ]_vars

(* The same without the capacity: it holds, with 50 calls outstanding at *)
(* most.                                                                   *)
C21_WithoutCapacity ==
  status = "running" =>
    /\ sp \in 0..STACK_SIZE
    /\ sp = 2 * Len(calls)
    /\ OccupiedSlots \subseteq 0..(sp - 1)
    /\ Cardinality(OccupiedSlots) = Len(calls)
    /\ \A k \in 1..Len(calls) :
         MemRead(stack_memory, calls[k].sp) = calls[k].at + 2

IsKeySkip == IsStep /\ FetchedIs(14) /\ Fetched % 256 = 161

(***************************************************************************)
(* C22.  The keyboard distinguishes all 16 hex keys.  EXA1 with V[X] = k,  *)
(* k a hex key, does not skip when the host key of k is down, and skips    *)
(* when it is not, in particular when the only host key down is that of    *)
(* another hex key j; EXA1 with V[X] above 0xF does not terminate the      *)
(* machine.                                                                *)
(***************************************************************************)
C22_Keys ==
  [][ IsKeySkip =>
        LET k == v[(Fetched \div 256) % 16]
        IN  /\ status' = "running"
            /\ k <= 15 =>
                 /\ Scancode(k) \in hist'.kbd => pc' = pc + 2
                 /\ Scancode(k) \notin hist'.kbd => pc' = pc + 4
                 /\ \A j \in (0..15) \ {k} :
                      hist'.kbd = {Scancode(j)} => pc' = pc + 4 ]_vars

(* The part about one key at a time: with only the host key of another  *)
(* hex key down, EXA1 skips.                                             *)
C22_OtherKeyOnly ==
  [][ IsKeySkip /\ v[(Fetched \div 256) % 16] <= 15 =>
        \A j \in (0..15) \ {v[(Fetched \div 256) % 16]} :
          hist'.kbd = {Scancode(j)} => pc' = pc + 4 ]_vars

(* The part about values past 0xF: EXA1 does not terminate the machine. *)
C22_AnyValue ==
  [][ IsKeySkip => status' = "running" ]_vars

====
